---- MODULE Spec2Model ----
(***************************************************************************)
(* Ledger replay of the transaction simulator: the fold of                 *)
(* business_logic::apply_transaction over the decoded input rows, and the  *)
(* per-account state machine Client::apply_transaction.                    *)
(*                                                                         *)
(* Amounts are f64 in the source.  They are modelled as a sign bit and an  *)
(* integer magnitude (a whole number of units), so that is_sign_negative   *)
(* and is_sign_positive are decided by the sign bit (-0.0 is negative) and *)
(* the arithmetic is exact; NaN, infinities and binary rounding are not    *)
(* modelled.                                                               *)
(***************************************************************************)
EXTENDS Integers, FiniteSets, Sequences, TLC

\* Bounds of the explored input space: client ids 1..MaxClient, transaction
\* ids 1..MaxTx, amounts up to MaxAmount, and the number of input rows: up to
\* MaxRecords rows of any client (Spec), and up to MaxAccountRecords rows that
\* all name client 1 (SpecAccount).
MaxClient == 2
MaxTx == 2
MaxAmount == 1
MaxRecords == 3
MaxAccountRecords == 5

VARIABLES client_out, client_transaction, processed, pc, output

vars == <<client_out, client_transaction, processed, pc, output>>

\* enum Type
Type == {"Deposit", "Withdrawal", "Dispute", "Resolve", "ChargeBack"}

\* Option<f64>: None, or Some(value) with the value's sign bit and magnitude.
None == [some |-> FALSE, neg |-> FALSE, mag |-> 0]

Some(neg, mag) == [some |-> TRUE, neg |-> neg, mag |-> mag]

\* A guard that compares the value with zero instead of reading the sign
\* bit: -0.0 passes it.
is_less_than_zero(amount) == amount.some /\ amount.neg /\ amount.mag > 0

\* amount.is_some_and(|amount| amount.is_sign_negative())
is_sign_negative(amount) == amount.some /\ amount.neg

\* amount.is_some_and(|amount| amount.is_sign_positive())
is_sign_positive(amount) == amount.some /\ ~amount.neg

\* amount.unwrap_or_default(), and the `amount` bound by `if let Some(amount)`
unwrap_or_default(amount) ==
  IF ~amount.some THEN 0 ELSE IF amount.neg THEN 0 - amount.mag ELSE amount.mag

\* The values of the `amount` column explored on deposit and withdrawal
\* rows: absent, -0.0, -1, and 0..MaxAmount.
Amounts ==
  {None} \cup {Some(FALSE, m) : m \in 0..MaxAmount} \cup {Some(TRUE, m) : m \in 0..1}

\* The values of the `amount` column explored on dispute, resolve and
\* chargeback rows, which carry none: absent, present, and present with a
\* negative sign (only the sign of such an amount is ever read).
ControlAmounts == {None, Some(FALSE, 1), Some(TRUE, 1)}

\* struct ClientTransaction: the decoded input rows.
ClientTransaction ==
  [id : 1..MaxClient, transaction_type : {"Deposit", "Withdrawal"},
   tx : 1..MaxTx, amount : Amounts]
  \cup
  [id : 1..MaxClient, transaction_type : {"Dispute", "Resolve", "ChargeBack"},
   tx : 1..MaxTx, amount : ControlAmounts]

\* The loop variable when the row failed to decode (Err(_) => continue),
\* and before the first row is read.
Malformed == [id |-> 0, transaction_type |-> "Err", tx |-> 0, amount |-> None]

\* struct Transaction
Transaction(amount, is_under_dispute) ==
  [amount |-> amount, is_under_dispute |-> is_under_dispute]

\* HashMap::contains_key
contains_key(map, key) == key \in DOMAIN map

\* HashMap::insert
insert(map, key, value) ==
  [k \in (DOMAIN map) \cup {key} |-> IF k = key THEN value ELSE map[k]]

\* Client { id, ..Default::default() }
Default(id) ==
  [id |-> id, available |-> 0, held |-> 0, total |-> 0, locked |-> FALSE,
   transations_history |-> <<>>]

\* Deposit that credits available but forgets total.
Deposit_forgets_total(self, transaction) ==
  IF transaction.amount.some
  THEN LET amount == unwrap_or_default(transaction.amount)
       IN [self EXCEPT !.available = @ + amount,
                       !.transations_history =
                          insert(@, transaction.tx, Transaction(amount, FALSE))]
  ELSE self

\* Type::Deposit arm of Client::apply_transaction
Deposit(self, transaction) ==
  IF transaction.amount.some
  THEN LET amount == unwrap_or_default(transaction.amount)
       IN [self EXCEPT !.available = @ + amount,
                       !.total = @ + amount,
                       !.transations_history =
                          insert(@, transaction.tx, Transaction(amount, FALSE))]
  ELSE self

\* Withdrawal without the insufficient-funds check.
Withdrawal_no_funds_check(self, transaction) ==
  IF transaction.amount.some
  THEN LET amount == unwrap_or_default(transaction.amount)
       IN [self EXCEPT !.available = @ - amount,
                       !.total = @ - amount,
                       !.transations_history =
                          insert(@, transaction.tx, Transaction(amount, FALSE))]
  ELSE self

\* Type::Withdrawal arm of Client::apply_transaction
Withdrawal(self, transaction) ==
  IF transaction.amount.some
  THEN LET amount == unwrap_or_default(transaction.amount)
       IN IF self.available < amount
          THEN self
          ELSE [self EXCEPT !.available = @ - amount,
                            !.total = @ - amount,
                            !.transations_history =
                               insert(@, transaction.tx, Transaction(amount, FALSE))]
  ELSE self

\* Dispute that records itself in the history when its tx id is not stored.
Dispute_inserts_record(self, transaction) ==
  IF contains_key(self.transations_history, transaction.tx)
  THEN IF ~self.transations_history[transaction.tx].is_under_dispute
       THEN LET tx == self.transations_history[transaction.tx]
            IN [self EXCEPT !.held = @ + tx.amount,
                            !.available = @ - tx.amount,
                            !.transations_history[transaction.tx].is_under_dispute = TRUE]
       ELSE self
  ELSE [self EXCEPT !.transations_history =
                       insert(@, transaction.tx, Transaction(0, FALSE))]

\* Dispute that holds the funds without taking them from available.
Dispute_keeps_available(self, transaction) ==
  IF /\ contains_key(self.transations_history, transaction.tx)
     /\ ~self.transations_history[transaction.tx].is_under_dispute
  THEN LET tx == self.transations_history[transaction.tx]
       IN [self EXCEPT !.held = @ + tx.amount,
                       !.transations_history[transaction.tx].is_under_dispute = TRUE]
  ELSE self

\* Dispute without the filter on the record's dispute flag.
Dispute_no_filter(self, transaction) ==
  IF contains_key(self.transations_history, transaction.tx)
  THEN LET tx == self.transations_history[transaction.tx]
       IN [self EXCEPT !.held = @ + tx.amount,
                       !.available = @ - tx.amount,
                       !.transations_history[transaction.tx].is_under_dispute = TRUE]
  ELSE self

\* Type::Dispute arm of Client::apply_transaction
Dispute(self, transaction) ==
  IF /\ contains_key(self.transations_history, transaction.tx)
     /\ ~self.transations_history[transaction.tx].is_under_dispute
  THEN LET tx == self.transations_history[transaction.tx]
       IN [self EXCEPT !.held = @ + tx.amount,
                       !.available = @ - tx.amount,
                       !.transations_history[transaction.tx].is_under_dispute = TRUE]
  ELSE self

\* Resolve that releases the held funds without returning them to available.
Resolve_keeps_available(self, transaction) ==
  IF /\ contains_key(self.transations_history, transaction.tx)
     /\ self.transations_history[transaction.tx].is_under_dispute
  THEN LET tx == self.transations_history[transaction.tx]
       IN [self EXCEPT !.held = @ - tx.amount]
  ELSE self

\* Resolve that also ends the dispute of the record.
Resolve_clears_flag(self, transaction) ==
  IF /\ contains_key(self.transations_history, transaction.tx)
     /\ self.transations_history[transaction.tx].is_under_dispute
  THEN LET tx == self.transations_history[transaction.tx]
       IN [self EXCEPT !.held = @ - tx.amount,
                       !.available = @ + tx.amount,
                       !.transations_history[transaction.tx].is_under_dispute = FALSE]
  ELSE self

\* Type::Resolve arm of Client::apply_transaction
Resolve(self, transaction) ==
  IF /\ contains_key(self.transations_history, transaction.tx)
     /\ self.transations_history[transaction.tx].is_under_dispute
  THEN LET tx == self.transations_history[transaction.tx]
       IN [self EXCEPT !.held = @ - tx.amount,
                       !.available = @ + tx.amount]
  ELSE self

\* ChargeBack that removes the funds but does not freeze the account.
ChargeBack_no_lock(self, transaction) ==
  IF /\ contains_key(self.transations_history, transaction.tx)
     /\ self.transations_history[transaction.tx].is_under_dispute
  THEN LET tx == self.transations_history[transaction.tx]
       IN [self EXCEPT !.held = @ - tx.amount,
                       !.total = @ - tx.amount]
  ELSE self

\* Type::ChargeBack arm of Client::apply_transaction
ChargeBack(self, transaction) ==
  IF /\ contains_key(self.transations_history, transaction.tx)
     /\ self.transations_history[transaction.tx].is_under_dispute
  THEN LET tx == self.transations_history[transaction.tx]
       IN [self EXCEPT !.held = @ - tx.amount,
                       !.total = @ - tx.amount,
                       !.locked = TRUE]
  ELSE self

\* Client::apply_transaction whose guard forgets `|| self.locked`.
Client_apply_transaction_no_lock_guard(self, transaction) ==
  IF is_sign_negative(transaction.amount)
  THEN self
  ELSE CASE /\ transaction.transaction_type = "Deposit"
            /\ ~contains_key(self.transations_history, transaction.tx)
              -> Deposit(self, transaction)
         [] /\ transaction.transaction_type = "Withdrawal"
            /\ ~contains_key(self.transations_history, transaction.tx)
              -> Withdrawal(self, transaction)
         [] transaction.transaction_type = "Dispute"
              -> Dispute(self, transaction)
         [] transaction.transaction_type = "Resolve"
              -> Resolve(self, transaction)
         [] transaction.transaction_type = "ChargeBack"
              -> ChargeBack(self, transaction)
         [] OTHER -> self

\* Client::apply_transaction
Client_apply_transaction(self, transaction) ==
  IF is_sign_negative(transaction.amount) \/ self.locked
  THEN self
  ELSE CASE /\ transaction.transaction_type = "Deposit"
            /\ ~contains_key(self.transations_history, transaction.tx)
              -> Deposit(self, transaction)
         [] /\ transaction.transaction_type = "Withdrawal"
            /\ ~contains_key(self.transations_history, transaction.tx)
              -> Withdrawal(self, transaction)
         [] transaction.transaction_type = "Dispute"
              -> Dispute(self, transaction)
         [] transaction.transaction_type = "Resolve"
              -> Resolve(self, transaction)
         [] transaction.transaction_type = "ChargeBack"
              -> ChargeBack(self, transaction)
         [] OTHER -> self

\* impl From<ClientTransaction> for Client
Client_from(value) ==
  IF /\ value.transaction_type = "Deposit"
     /\ is_sign_positive(value.amount)
  THEN [Default(value.id) EXCEPT
          !.available = unwrap_or_default(value.amount),
          !.total = unwrap_or_default(value.amount),
          !.transations_history =
             insert(<<>>, value.tx,
                    Transaction(unwrap_or_default(value.amount), FALSE))]
  ELSE Default(value.id)

\* A ledger that applies a row to every account it holds.
entry_and_modify_every_account(map, transaction) ==
  LET every == [c \in DOMAIN map |->
                  Client_apply_transaction(map[c], transaction)]
  IN IF contains_key(map, transaction.id)
     THEN every
     ELSE insert(every, transaction.id, Client_from(transaction))

\* A ledger that creates no account for an unseen client whose first row has
\* no effect.
entry_and_modify_or_insert_if_valid(map, transaction) ==
  IF contains_key(map, transaction.id)
  THEN [map EXCEPT ![transaction.id] =
          Client_apply_transaction(map[transaction.id], transaction)]
  ELSE IF Client_from(transaction) = Default(transaction.id)
       THEN map
       ELSE insert(map, transaction.id, Client_from(transaction))

\* client_out.entry(id).and_modify(|client| client.apply_transaction(..))
\*           .or_insert(Client::from(..))
entry_and_modify_or_insert(map, transaction) ==
  IF contains_key(map, transaction.id)
  THEN [map EXCEPT ![transaction.id] =
          Client_apply_transaction(map[transaction.id], transaction)]
  ELSE insert(map, transaction.id, Client_from(transaction))

\* The whole read loop of apply_transaction over a sequence of decoded rows.
RECURSIVE apply_transaction(_, _)
apply_transaction(map, rows) ==
  IF rows = <<>>
  THEN map
  ELSE apply_transaction(entry_and_modify_or_insert(map, Head(rows)), Tail(rows))

\* four_decimals: format!("{:.4}", value), of a whole number of units.
four_decimals(value) == ToString(value) \o ".0000"

\* The row the writer serializes for a Client (transations_history is
\* #[serde(skip)]).
Serialized(client) ==
  [client |-> client.id,
   available |-> four_decimals(client.available),
   held |-> four_decimals(client.held),
   total |-> four_decimals(client.total),
   locked |-> client.locked]

\* The orders in which client_out.values() may yield the accounts.
Orders(map) ==
  {order \in [1..Cardinality(DOMAIN map) -> DOMAIN map] :
     \A i, j \in 1..Cardinality(DOMAIN map) : order[i] = order[j] => i = j}

Init ==
  /\ client_out = <<>>
  /\ client_transaction = Malformed
  /\ processed = 0
  /\ pc = "read"
  /\ output = <<>>

\* One iteration of the read loop on a row that decodes.
ReadRecord(transaction) ==
  /\ pc = "read"
  /\ client_transaction' = transaction
  /\ client_out' = entry_and_modify_or_insert(client_out, transaction)
  /\ processed' = processed + 1
  /\ UNCHANGED <<pc, output>>

\* One iteration of the read loop on a row that fails to decode.
ReadMalformed ==
  /\ pc = "read"
  /\ client_transaction' = Malformed
  /\ processed' = processed + 1
  /\ UNCHANGED <<client_out, pc, output>>

\* The end of the input: the loop is left and every account is serialized,
\* in the order the HashMap yields them.
WriteOutput ==
  /\ pc = "read"
  /\ \E order \in Orders(client_out) :
       output' = [i \in DOMAIN order |-> Serialized(client_out[order[i]])]
  /\ pc' = "done"
  /\ client_transaction' = Malformed
  /\ UNCHANGED <<client_out, processed>>

\* The ledger: inputs of up to MaxRecords rows, of any client, and the output.
Next ==
  \/ /\ processed < MaxRecords
     /\ \E transaction \in ClientTransaction : ReadRecord(transaction)
  \/ /\ processed < MaxRecords
     /\ ReadMalformed
  \/ WriteOutput

Spec == Init /\ [][Next]_vars

\* One account: inputs of up to MaxAccountRecords rows that all name client 1.
NextAccount ==
  \/ /\ processed < MaxAccountRecords
     /\ \E transaction \in {t \in ClientTransaction : t.id = 1} :
          ReadRecord(transaction)
  \/ /\ processed < MaxAccountRecords
     /\ ReadMalformed

SpecAccount == Init /\ [][NextAccount]_vars

(***************************************************************************)
(* Properties.                                                             *)
(***************************************************************************)

\* The clients that have an account in the ledger.
Accounts == DOMAIN client_out

\* The account the record of the step is applied to: the client's account
\* before the step, or a zero-value account when the client is unseen.
Pre(transaction) ==
  IF transaction.id \in Accounts
  THEN client_out[transaction.id]
  ELSE Default(transaction.id)

\* The same client's account after the step.
Post(transaction) == client_out'[transaction.id]

\* The step decodes a record of the given type.
Reads(type) == client_transaction'.transaction_type = type

\* Input rows used by the scenarios.
Row(type, client, tx, amount) ==
  [id |-> client, transaction_type |-> type, tx |-> tx, amount |-> amount]

\* The account of a client after a whole input has been read.
Final(rows, client) == apply_transaction(<<>>, rows)[client]

\* The serialized columns of an account.
Balances(client) ==
  <<client.available, client.held, client.total, client.locked>>

\* C1: after every processed record, every account of the ledger has
\* total = available + held, the record that creates the account included.
C1_TotalIsAvailablePlusHeld ==
  \A c \in Accounts :
    client_out[c].total = client_out[c].available + client_out[c].held

\* C1 witness: an account created by a deposit and changed by later records,
\* with funds both available and held.
C1_Witness ==
  \E c \in Accounts :
    /\ client_out[c].held > 0
    /\ client_out[c].available > 0
    /\ client_out[c].total = client_out[c].available + client_out[c].held

\* C2: in every reachable ledger state every account has available >= 0.
C2_AvailableNonNegative ==
  \A c \in Accounts : client_out[c].available >= 0

\* C3: in every reachable ledger state every account has held >= 0.
C3_HeldNonNegative ==
  \A c \in Accounts : client_out[c].held >= 0

\* C4: in every reachable ledger state every account has total >= 0; no
\* ChargeBack drives total below zero.
C4_TotalNonNegative ==
  \A c \in Accounts : client_out[c].total >= 0

\* C5: locked is terminal: once an account is locked, every later step (any
\* record, addressed to that client or not) leaves the account in the ledger
\* with the same balances, locked flag and history, so locked stays true.
C5_LockedIsTerminal ==
  [][\A c \in Accounts :
       client_out[c].locked =>
         /\ c \in DOMAIN client_out'
         /\ client_out'[c] = client_out[c]]_vars

\* C5 witness: a locked account whose last record is a deposit of a positive
\* amount under a transaction id the history does not hold: the deposit came
\* after the lock and was ignored.
C5_Witness ==
  /\ client_transaction.transaction_type = "Deposit"
  /\ is_sign_positive(client_transaction.amount)
  /\ client_transaction.amount.mag > 0
  /\ client_transaction.id \in Accounts
  /\ client_out[client_transaction.id].locked
  /\ ~contains_key(client_out[client_transaction.id].transations_history,
                   client_transaction.tx)

\* C6 (first half): a Deposit or Withdrawal whose tx id is already in the
\* account's history changes nothing of the account.
C6_DuplicateIgnoredStep ==
  LET t == client_transaction'
  IN (/\ Reads("Deposit") \/ Reads("Withdrawal")
      /\ t.id \in Accounts
      /\ contains_key(client_out[t.id].transations_history, t.tx))
     => Post(t) = client_out[t.id]

\* C6 (second half): when the record just processed is processed again as
\* the next row, the replay changes nothing.
C6_ReplayStep ==
  (/\ Reads("Deposit") \/ Reads("Withdrawal")
   /\ client_transaction' = client_transaction
   /\ processed' = processed + 1)
  => client_out' = client_out

\* C6: duplicate tx ids are ignored: a Deposit/Withdrawal whose tx id is in
\* the history changes nothing, hence replaying the same Deposit/Withdrawal
\* record twice in a row changes the state at most once.
C6_DuplicateTxIgnored == [][C6_DuplicateIgnoredStep /\ C6_ReplayStep]_vars

\* C7: a Withdrawal is applied only when available >= amount: with
\* available < amount the account is unchanged (no history entry); when it
\* is applied, available and total decrease by exactly amount, held and
\* locked are unchanged, the record is stored undisputed and available is
\* still >= 0.
C7_WithdrawalStep ==
  LET t == client_transaction'
      amount == unwrap_or_default(t.amount)
  IN Reads("Withdrawal") =>
       /\ (t.amount.some /\ Pre(t).available < amount) => Post(t) = Pre(t)
       /\ Post(t) # Pre(t) =>
            /\ t.amount.some
            /\ Pre(t).available >= amount
            /\ Post(t) =
                 [Pre(t) EXCEPT
                    !.available = @ - amount,
                    !.total = @ - amount,
                    !.transations_history =
                       insert(@, t.tx, Transaction(amount, FALSE))]
            /\ Post(t).held = Pre(t).held
            /\ Post(t).available >= 0

C7_WithdrawalOnlyWithFunds == [][C7_WithdrawalStep]_vars

\* C7 witness: two rows read, both stored in the history: a deposit of 1
\* and a withdrawal of 1 that took available and total back to 0.
C7_Witness ==
  /\ processed = 2
  /\ client_transaction = Row("Withdrawal", 1, 2, Some(FALSE, 1))
  /\ 1 \in Accounts
  /\ Balances(client_out[1]) = <<0, 0, 0, FALSE>>
  /\ DOMAIN client_out[1].transations_history = {1, 2}
  /\ client_out[1].transations_history[1] = Transaction(1, FALSE)
  /\ client_out[1].transations_history[2] = Transaction(1, FALSE)

\* The input of test_basic.
C8_Input ==
  << Row("Deposit", 1, 1, Some(FALSE, 5)),
     Row("Deposit", 1, 2, Some(FALSE, 3)),
     Row("Withdrawal", 1, 3, Some(FALSE, 4)) >>

\* C8: an accepted Deposit (account not locked, amount present with no
\* negative sign, tx id not in the history) adds amount to available and to
\* total, leaves held and locked as they are and stores
\* history[tx] = {amount, not disputed}; deposit 5, deposit 3, withdrawal 4
\* ends with available=4, held=0, total=4, locked=false.
C8_DepositStep ==
  LET t == client_transaction'
      amount == unwrap_or_default(t.amount)
  IN (/\ Reads("Deposit")
      /\ ~Pre(t).locked
      /\ is_sign_positive(t.amount)
      /\ ~contains_key(Pre(t).transations_history, t.tx))
     => /\ Post(t).available = Pre(t).available + amount
        /\ Post(t).total = Pre(t).total + amount
        /\ Post(t).held = Pre(t).held
        /\ Post(t).locked = Pre(t).locked
        /\ Post(t).id = Pre(t).id
        /\ Post(t).transations_history =
             insert(Pre(t).transations_history, t.tx, Transaction(amount, FALSE))

\* deposit 5, deposit 3, withdrawal 4 on client 1.
C8_Scenario == Balances(Final(C8_Input, 1)) = <<4, 0, 4, FALSE>>

C8_AcceptedDeposit == [][C8_DepositStep /\ C8_Scenario]_vars

\* C8 witness: two rows read, a deposit of 1 that created the account and a
\* second deposit of 1 applied to it.
C8_Witness ==
  /\ processed = 2
  /\ client_transaction = Row("Deposit", 1, 2, Some(FALSE, 1))
  /\ 1 \in Accounts
  /\ Balances(client_out[1]) = <<2, 0, 2, FALSE>>
  /\ DOMAIN client_out[1].transations_history = {1, 2}
  /\ client_out[1].transations_history[1] = Transaction(1, FALSE)
  /\ client_out[1].transations_history[2] = Transaction(1, FALSE)

\* A dispute read before, and after, the deposit it names.
C9_DisputeFirst ==
  << Row("Dispute", 1, 1, None), Row("Deposit", 1, 1, Some(FALSE, 5)) >>

C9_DepositFirst ==
  << Row("Deposit", 1, 1, Some(FALSE, 5)), Row("Dispute", 1, 1, None) >>

\* C9: Dispute is order-sensitive: a Dispute whose tx id is not in the
\* client's history changes no balance and no history; a Dispute passing the
\* guard (account not locked, no negative amount carried) on a stored,
\* undisputed record moves the record's amount from available to held,
\* leaves total and locked, and marks the record disputed; a Dispute on an
\* already disputed record changes nothing.
C9_DisputeStep ==
  LET t == client_transaction'
      history == Pre(t).transations_history
  IN Reads("Dispute") =>
       /\ ~contains_key(history, t.tx) => Post(t) = Pre(t)
       /\ (contains_key(history, t.tx) /\ history[t.tx].is_under_dispute)
            => Post(t) = Pre(t)
       /\ (/\ contains_key(history, t.tx)
           /\ ~history[t.tx].is_under_dispute
           /\ ~Pre(t).locked
           /\ ~is_sign_negative(t.amount))
            => Post(t) =
                 [Pre(t) EXCEPT
                    !.held = @ + history[t.tx].amount,
                    !.available = @ - history[t.tx].amount,
                    !.transations_history[t.tx].is_under_dispute = TRUE]

\* The dispute read first holds nothing; read second it holds the deposit.
C9_Scenario ==
  /\ Balances(Final(C9_DisputeFirst, 1)) = <<5, 0, 5, FALSE>>
  /\ ~Final(C9_DisputeFirst, 1).transations_history[1].is_under_dispute
  /\ Balances(Final(C9_DepositFirst, 1)) = <<0, 5, 5, FALSE>>
  /\ Final(C9_DepositFirst, 1).transations_history[1].is_under_dispute

C9_DisputeOrderSensitive == [][C9_DisputeStep /\ C9_Scenario]_vars

\* C9 witness: three rows read: a dispute of an unseen tx that created the
\* zero account, the deposit of that tx, and the same dispute again, which
\* now holds the deposit's amount.
C9_Witness ==
  /\ processed = 3
  /\ client_transaction = Row("Dispute", 1, 1, None)
  /\ 1 \in Accounts
  /\ Balances(client_out[1]) = <<0, 1, 1, FALSE>>
  /\ DOMAIN client_out[1].transations_history = {1}
  /\ client_out[1].transations_history[1] = Transaction(1, TRUE)

\* The input of test_chargeback.
C10_Input ==
  << Row("Deposit", 1, 1, Some(FALSE, 5)),
     Row("Dispute", 1, 1, None),
     Row("ChargeBack", 1, 1, None) >>

\* C10: a ChargeBack takes effect only when its tx id is in the client's
\* history and the record is marked disputed; it then takes the record's
\* amount from held and from total, leaves available and locks the account;
\* otherwise it changes nothing.  Deposit 5, dispute, chargeback ends with
\* available=0, held=0, total=0, locked=true.
C10_ChargeBackStep ==
  LET t == client_transaction'
      history == Pre(t).transations_history
  IN Reads("ChargeBack") =>
       IF /\ contains_key(history, t.tx)
          /\ history[t.tx].is_under_dispute
          /\ ~Pre(t).locked
          /\ ~is_sign_negative(t.amount)
       THEN Post(t) =
              [Pre(t) EXCEPT
                 !.held = @ - history[t.tx].amount,
                 !.total = @ - history[t.tx].amount,
                 !.locked = TRUE]
       ELSE Post(t) = Pre(t)

\* deposit 5, dispute and chargeback of it on client 1.
C10_Scenario == Balances(Final(C10_Input, 1)) = <<0, 0, 0, TRUE>>

C10_ChargeBackEffect == [][C10_ChargeBackStep /\ C10_Scenario]_vars

\* C10 witness: deposit 1, dispute and chargeback of it: the account is
\* locked with nothing left.
C10_Witness ==
  /\ processed = 3
  /\ client_transaction = Row("ChargeBack", 1, 1, None)
  /\ 1 \in Accounts
  /\ Balances(client_out[1]) = <<0, 0, 0, TRUE>>
  /\ DOMAIN client_out[1].transations_history = {1}
  /\ client_out[1].transations_history[1] = Transaction(1, TRUE)

\* C11: Dispute followed by Resolve is a round trip on balances: when a
\* Dispute takes effect on an unlocked account (the record is stored and
\* undisputed), a Resolve of the same tx id applied to the result returns
\* available, held and total to the values before the Dispute and leaves
\* locked false.
C11_DisputeStep ==
  LET t == client_transaction'
      history == Pre(t).transations_history
  IN (/\ Reads("Dispute")
      /\ ~Pre(t).locked
      /\ ~is_sign_negative(t.amount)
      /\ contains_key(history, t.tx)
      /\ ~history[t.tx].is_under_dispute)
     => /\ Post(t).held = Pre(t).held + history[t.tx].amount
        /\ Balances(Client_apply_transaction(
                      Post(t), Row("Resolve", t.id, t.tx, None)))
             = Balances(Pre(t))
        /\ ~Post(t).locked

C11_DisputeResolveRoundTrip == [][C11_DisputeStep]_vars

\* C11 witness: deposit 1, dispute of it and resolve of it have been read:
\* the record carries the dispute flag and the balances are those after the
\* deposit.
C11_Witness ==
  /\ processed = 3
  /\ client_transaction = Row("Resolve", 1, 1, None)
  /\ 1 \in Accounts
  /\ Balances(client_out[1]) = <<1, 0, 1, FALSE>>
  /\ DOMAIN client_out[1].transations_history = {1}
  /\ client_out[1].transations_history[1] = Transaction(1, TRUE)

\* C12: accounts are created lazily and never deleted: every step leaves the
\* ledger with the accounts it had plus the client of the row it decoded, so
\* the accounts are exactly the client ids seen in decoded rows; a client
\* whose first row is a dispute, resolve or chargeback gets the zero account
\* (no balance, not locked, empty history); and the output holds exactly one
\* row per account, with the account's serialized fields.
C12_Step ==
  LET t == client_transaction'
  IN /\ DOMAIN client_out' =
          Accounts \cup (IF t = Malformed THEN {} ELSE {t.id})
     /\ (/\ Reads("Dispute") \/ Reads("Resolve") \/ Reads("ChargeBack")
         /\ t.id \notin Accounts)
          => /\ Post(t) = Default(t.id)
             /\ Balances(Post(t)) = <<0, 0, 0, FALSE>>
             /\ DOMAIN Post(t).transations_history = {}
     /\ pc' = "done" =>
          /\ Len(output') = Cardinality(DOMAIN client_out')
          /\ {output'[i].client : i \in DOMAIN output'} = DOMAIN client_out'
          /\ \A i \in DOMAIN output' :
               output'[i] = Serialized(client_out'[output'[i].client])

C12_AccountsAreClientsSeen == [][C12_Step]_vars

\* C12 witness: two rows were read and the output written: client 1 holds a
\* deposit of 1, client 2 was created with the zero account by a row without
\* effect, and the output has one row for each.
C12_Witness ==
  /\ pc = "done"
  /\ processed = 2
  /\ Accounts = {1, 2}
  /\ Balances(client_out[1]) = <<1, 0, 1, FALSE>>
  /\ client_out[2] = Default(2)
  /\ Len(output) = 2
  /\ output[1] = [client |-> 2, available |-> "0.0000", held |-> "0.0000",
                  total |-> "0.0000", locked |-> FALSE]
  /\ output[2] = [client |-> 1, available |-> "1.0000", held |-> "0.0000",
                  total |-> "1.0000", locked |-> FALSE]

\* C13: negative-amount guard: a row of any type that carries an amount with
\* a negative sign leaves an existing account unchanged, and as the first
\* row of an unseen client creates the account with zero balances, not
\* locked and with no history entry.
C13_Step ==
  LET t == client_transaction'
  IN (t.amount.some /\ t.amount.neg) =>
       /\ Post(t) = Pre(t)
       /\ t.id \notin Accounts =>
            /\ Balances(Post(t)) = <<0, 0, 0, FALSE>>
            /\ DOMAIN Post(t).transations_history = {}

C13_NegativeAmountGuard == [][C13_Step]_vars

\* C13 witness: after a deposit of 1, a withdrawal of -1 under a new tx id
\* was read and left the account as it was.
C13_Witness ==
  /\ processed = 2
  /\ client_transaction = Row("Withdrawal", 1, 2, Some(TRUE, 1))
  /\ 1 \in Accounts
  /\ Balances(client_out[1]) = <<1, 0, 1, FALSE>>
  /\ DOMAIN client_out[1].transations_history = {1}

\* C14: account creation agrees with the state machine: for every row that
\* is the first of an unseen client, the account the ledger inserts is the
\* result of applying the row to the zero-value account of that client.
C14_Step ==
  LET t == client_transaction'
  IN (t.transaction_type \in Type /\ t.id \notin Accounts)
     => Post(t) = Client_apply_transaction(Default(t.id), t)

C14_CreationAgreesWithStateMachine == [][C14_Step]_vars

\* The step applies a Dispute right after a Resolve of the same tx id of the
\* same client took effect: the row read before was that Resolve, both rows
\* pass the guard, and the record is stored and marked disputed.
C15_DisputeAfterResolve ==
  LET t == client_transaction'
      r == client_transaction
  IN /\ Reads("Dispute")
     /\ r.transaction_type = "Resolve"
     /\ r.id = t.id
     /\ r.tx = t.tx
     /\ ~is_sign_negative(r.amount)
     /\ ~is_sign_negative(t.amount)
     /\ t.id \in Accounts
     /\ ~client_out[t.id].locked
     /\ contains_key(client_out[t.id].transations_history, t.tx)
     /\ client_out[t.id].transations_history[t.tx].is_under_dispute

\* C15 as stated: a second Dispute on the same tx id, processed after the
\* Resolve on an unlocked account, again moves the record's amount from
\* available to held.
C15_DisputedAgainStep ==
  LET t == client_transaction'
      amount == Pre(t).transations_history[t.tx].amount
  IN C15_DisputeAfterResolve
     => /\ Post(t).held = Pre(t).held + amount
        /\ Post(t).available = Pre(t).available - amount

C15_ResolveStep ==
  LET t == client_transaction'
      history == Pre(t).transations_history
  IN (/\ Reads("Resolve")
      /\ ~Pre(t).locked
      /\ ~is_sign_negative(t.amount)
      /\ contains_key(history, t.tx)
      /\ history[t.tx].is_under_dispute)
     => /\ Post(t).transations_history[t.tx].is_under_dispute
        /\ Client_apply_transaction(Post(t), Row("Dispute", t.id, t.tx, None))
             = Post(t)

C15_NoSecondDisputeStep ==
  C15_DisputeAfterResolve => Post(client_transaction') = Pre(client_transaction')

C16_FlagKept ==
  \A c \in Accounts :
    \A tx \in DOMAIN client_out[c].transations_history :
      client_out[c].transations_history[tx].is_under_dispute
        => /\ c \in DOMAIN client_out'
           /\ contains_key(client_out'[c].transations_history, tx)
           /\ client_out'[c].transations_history[tx].is_under_dispute

C16_ResolveStep ==
  LET t == client_transaction'
      history == Pre(t).transations_history
  IN (/\ Reads("Resolve")
      /\ ~Pre(t).locked
      /\ ~is_sign_negative(t.amount)
      /\ contains_key(history, t.tx)
      /\ history[t.tx].is_under_dispute)
     => /\ Post(t).held = Pre(t).held - history[t.tx].amount
        /\ Post(t).available = Pre(t).available + history[t.tx].amount
        /\ Post(t).total = Pre(t).total
        /\ LET again == Client_apply_transaction(Post(t), t)
           IN /\ again.held = Post(t).held - history[t.tx].amount
              /\ again.available = Post(t).available + history[t.tx].amount

C17_Control == {"Dispute", "Resolve", "ChargeBack"}

C17_ControlStep ==
  LET t == client_transaction'
  IN t.transaction_type \in C17_Control
     => /\ DOMAIN Post(t).transations_history = DOMAIN Pre(t).transations_history
        /\ \A tx \in DOMAIN Pre(t).transations_history :
             Post(t).transations_history[tx].amount
               = Pre(t).transations_history[tx].amount
        /\ ~contains_key(Pre(t).transations_history, t.tx)
             => /\ Post(t) = Pre(t)
                /\ Client_apply_transaction(
                     Post(t), Row("Dispute", t.id, t.tx, None)) = Post(t)

C17_RecordsKept ==
  \A c \in Accounts :
    \A tx \in DOMAIN client_out[c].transations_history :
      /\ c \in DOMAIN client_out'
      /\ contains_key(client_out'[c].transations_history, tx)
      /\ client_out'[c].transations_history[tx].amount
           = client_out[c].transations_history[tx].amount

C17_NewRecord ==
  LET t == client_transaction'
  IN \A c \in DOMAIN client_out' :
       \A tx \in DOMAIN client_out'[c].transations_history :
         /\ client_out'[c].transations_history[tx].amount >= 0
         /\ (c \notin Accounts \/ ~contains_key(client_out[c].transations_history, tx))
              => /\ t.transaction_type \in {"Deposit", "Withdrawal"}
                 /\ t.id = c
                 /\ t.tx = tx
                 /\ t.amount.some
                 /\ ~t.amount.neg
                 /\ client_out'[c].transations_history[tx]
                      = Transaction(t.amount.mag, FALSE)

C17_HistoryFrame == [][C17_ControlStep /\ C17_RecordsKept /\ C17_NewRecord]_vars

\* C17 witness: deposit 1 as tx 1 and two rows that store nothing, the last a
\* dispute naming tx 2: the history still holds tx 1 only, with its amount.
C17_Witness ==
  /\ processed = 3
  /\ client_transaction = Row("Dispute", 1, 2, None)
  /\ 1 \in Accounts
  /\ Balances(client_out[1]) = <<1, 0, 1, FALSE>>
  /\ DOMAIN client_out[1].transations_history = {1}
  /\ client_out[1].transations_history[1] = Transaction(1, FALSE)

\* C18: a row addressed to one client leaves every other account (balances,
\* locked flag, history) as it was; a Dispute, Resolve or ChargeBack naming a
\* tx id that the client's own history does not hold is a no-op, whether or
\* not another client's history holds it; and a Deposit or Withdrawal of an
\* unlocked account is accepted under a tx id that is free in the own
\* history, whether or not another client already used it.
C18_OthersUnchanged ==
  LET t == client_transaction'
  IN \A c \in Accounts :
       (t = Malformed \/ c # t.id)
         => /\ c \in DOMAIN client_out'
            /\ client_out'[c] = client_out[c]

C18_ForeignTxStep ==
  LET t == client_transaction'
  IN (/\ t.transaction_type \in {"Dispute", "Resolve", "ChargeBack"}
      /\ ~contains_key(Pre(t).transations_history, t.tx))
     => Post(t) = Pre(t)

C18_SameTxStep ==
  LET t == client_transaction'
  IN (/\ t.transaction_type \in {"Deposit", "Withdrawal"}
      /\ t.id \in Accounts
      /\ ~Pre(t).locked
      /\ t.amount.some
      /\ ~t.amount.neg
      /\ ~contains_key(Pre(t).transations_history, t.tx)
      /\ (Reads("Withdrawal") => Pre(t).available >= t.amount.mag))
     => /\ contains_key(Post(t).transations_history, t.tx)
        /\ Post(t).transations_history[t.tx] = Transaction(t.amount.mag, FALSE)
        /\ Post(t).available
             = IF Reads("Deposit") THEN Pre(t).available + t.amount.mag
                                   ELSE Pre(t).available - t.amount.mag

C18_AccountsIsolated ==
  [][C18_OthersUnchanged /\ C18_ForeignTxStep /\ C18_SameTxStep]_vars

\* C18 witness: both clients deposited 1 under tx id 1 and client 1 disputed
\* it: client 1 holds the amount, client 2's account and record are untouched.
C18_Witness ==
  /\ processed = 3
  /\ client_transaction = Row("Dispute", 1, 1, None)
  /\ Accounts = {1, 2}
  /\ Balances(client_out[1]) = <<0, 1, 1, FALSE>>
  /\ client_out[1].transations_history[1] = Transaction(1, TRUE)
  /\ Balances(client_out[2]) = <<1, 0, 1, FALSE>>
  /\ DOMAIN client_out[2].transations_history = {1}
  /\ client_out[2].transations_history[1] = Transaction(1, FALSE)

\* The row read is a ChargeBack that passes the guard and names a stored
\* record of the account that is marked disputed.
C19_ChargeBackApplies ==
  LET t == client_transaction'
  IN /\ Reads("ChargeBack")
     /\ ~is_sign_negative(t.amount)
     /\ t.id \in Accounts
     /\ ~client_out[t.id].locked
     /\ contains_key(client_out[t.id].transations_history, t.tx)
     /\ client_out[t.id].transations_history[t.tx].is_under_dispute

\* C19: an account is created unlocked; it becomes locked exactly in the steps
\* that apply a ChargeBack to a disputed record of it; a ChargeBack changes an
\* account only in such a step, which finds it unlocked and leaves it locked,
\* so no second ChargeBack of the account changes anything; and a locked
\* account holds a record marked disputed.
C19_LockStep ==
  LET t == client_transaction'
  IN /\ \A c \in DOMAIN client_out' :
          /\ c \notin Accounts => ~client_out'[c].locked
          /\ (c \in Accounts /\ client_out'[c].locked /\ ~client_out[c].locked)
               => (C19_ChargeBackApplies /\ t.id = c)
          /\ client_out'[c].locked
               => \E tx \in DOMAIN client_out'[c].transations_history :
                    client_out'[c].transations_history[tx].is_under_dispute
     /\ C19_ChargeBackApplies
          => /\ Post(t).locked
             /\ Post(t).total
                  = Pre(t).total - Pre(t).transations_history[t.tx].amount
     /\ (Reads("ChargeBack") /\ ~C19_ChargeBackApplies)
          => Post(t) = Pre(t)
     /\ (Reads("ChargeBack") /\ Pre(t).locked)
          => /\ Post(t) = Pre(t)
             /\ Client_apply_transaction(Post(t), t) = Post(t)

C19_LockedOnlyByChargeBack == [][C19_LockStep]_vars

\* C19 witness: four rows were read, among them deposit 1, its dispute and
\* its chargeback, the last row a chargeback of it again: the account is
\* locked and total was reduced once.
C19_Witness ==
  /\ processed = 4
  /\ client_transaction = Row("ChargeBack", 1, 1, None)
  /\ 1 \in Accounts
  /\ Balances(client_out[1]) = <<0, 0, 0, TRUE>>
  /\ DOMAIN client_out[1].transations_history = {1}
  /\ client_out[1].transations_history[1] = Transaction(1, TRUE)

====
